---- MODULE Spec2Model ----
(***************************************************************************)
(* Model of internal/crypt/lowlevel.c of portunus: the three C wrappers    *)
(* around libcrypt (feature_test, wrap_crypt_r, wrap_crypt_gensalt_rn),    *)
(* called from several threads, together with the memory they touch: the  *)
(* per-thread stack area holding `data` / `buf`, and the heap blocks made  *)
(* by strdup / strndup and owned by the caller.                            *)
(*                                                                         *)
(* Strings are sequences of bytes 1..9; buffers are fixed-length sequences *)
(* of bytes 0..9 where 0 is the NUL terminator.  libcrypt itself is not    *)
(* part of the repository; it is the environment, modelled by the contract *)
(* of crypt_r and crypt_gensalt_rn in <crypt.h>.                           *)
(***************************************************************************)
EXTENDS Integers, Sequences, FiniteSets, TLC

\* ---------------------------------------------------------------- bounds
NThreads == 2
MaxBlocks == 2
\* sizeof(data.output) and sizeof(buf), scaled down (384 and 192 in crypt.h)
CRYPT_OUTPUT_SIZE == 4
CRYPT_GENSALT_OUTPUT_SIZE == 3

Threads == 1..NThreads
HeapAddrs == 1..MaxBlocks

\* ------------------------------------------------------- C values
NULL == 0
NullStr == [null |-> TRUE, str |-> <<>>]
Ptr(s) == [null |-> FALSE, str |-> s]

Min(a, b) == IF a < b THEN a ELSE b

RECURSIVE Sum(_)
Sum(s) == IF s = <<>> THEN 0 ELSE Head(s) + Sum(Tail(s))

\* index of the first NUL of a buffer, Len(buf) + 1 when it has none
RECURSIVE FirstNul(_, _)
FirstNul(buf, i) ==
    IF i > Len(buf) THEN i
    ELSE IF buf[i] = 0 THEN i
    ELSE FirstNul(buf, i + 1)

\* the C string that starts at the beginning of buf
CStr(buf) == SubSeq(buf, 1, FirstNul(buf, 1) - 1)

\* the library writing the NUL-terminated string s at the start of buf
Store(buf, s) ==
    [i \in 1..Len(buf) |->
        IF i <= Len(s) THEN s[i]
        ELSE IF i = Len(s) + 1 THEN 0
        ELSE buf[i]]

Fill(n, b) == [i \in 1..n |-> b]

\* ------------------------------------------------------- inputs
Phrases == {<<1>>, <<2>>}
MalformedSetting == <<9, 1>>
Prefixes == {<<>>, <<5>>, <<7>>, <<9>>}
GarbageByte == 8

\* ------------------------------------------------------- libcrypt
\* schemes of the modelled library: 5 and 6 are salted schemes, 7 is a
\* degenerate scheme whose setting and hash are the empty string, 9 is
\* unknown to the library
SupportedPrefixes == {<<5>>, <<6>>, <<7>>}
DefaultPrefix == <<6>>
NullScheme == <<7>>
FailureToken == <<8, 8>>
EntropyFail == 0
Entropy == {EntropyFail, 1}

ValidSetting(s) ==
    \/ s = <<>>
    \/ Len(s) = 2 /\ <<s[1]>> \in {<<5>>, <<6>>}

Digest(phrase, setting) == <<((Sum(phrase) + Sum(setting)) % 2) + 1>>

HashString(phrase, setting) ==
    IF setting = <<>> THEN <<>> ELSE setting \o Digest(phrase, setting)

ZeroData == [initialized |-> 0, output |-> Fill(CRYPT_OUTPUT_SIZE, 0)]

\* crypt_r(phrase, setting, &data): the set of outcomes the library can
\* produce.  With a zeroed `data` the outcome is a function of phrase and
\* setting; with a `data` that was not zeroed before its first use the
\* contract of crypt_r is broken and the outcome is unspecified.
crypt_r(phrase, setting, data) ==
    LET good == IF ValidSetting(setting)
                THEN [null |-> FALSE,
                      data |-> [initialized |-> 1,
                                output |-> Store(ZeroData.output,
                                                 HashString(phrase, setting))]]
                ELSE [null |-> TRUE,
                      data |-> [initialized |-> 1,
                                output |-> Store(ZeroData.output, FailureToken)]]
    IN  IF data = ZeroData
        THEN {good}
        ELSE {good,
              [null |-> FALSE, data |-> data],
              [null |-> TRUE, data |-> data]}

\* crypt_gensalt_rn(prefix, count, rbytes, nrbytes, output, output_size)
\* on a library built as `b`, with `e` the outcome of reading the OS
\* entropy source: [null, buf] is the return value and the output buffer.
crypt_gensalt_rn(b, e, prefix, count, rbytes, nrbytes, output, size) ==
    LET fail == [null |-> TRUE, buf |-> output]
        p == IF prefix.null THEN DefaultPrefix ELSE prefix.str
        s == IF p = NullScheme THEN <<>> ELSE p \o <<e>>
    IN  IF prefix.null /\ ~b.defaultPrefix THEN fail
        ELSE IF p \notin SupportedPrefixes THEN fail
        ELSE IF rbytes.null /\ (~b.autoEntropy \/ e = EntropyFail) THEN fail
        ELSE IF ~rbytes.null /\ nrbytes = 0 THEN fail
        ELSE IF Len(s) + 1 > size THEN fail
        ELSE [null |-> FALSE, buf |-> Store(output, s)]

\* ------------------------------------------------------- string.h
\* memset left out: `data` keeps what the stack held
MemsetSkipped(data) == data

\* memset(&data, 0, sizeof(struct crypt_data))
Memset(data) == ZeroData

\* a copy of the whole n-byte window, NUL or not (memcpy instead of strndup)
StrNDupWindow(buf, n) == SubSeq(buf, 1, Min(n, Len(buf)))

\* strndup(buf, n): the bytes before the first NUL, at most n of them
StrNDup(buf, n) == SubSeq(buf, 1, Min(n, FirstNul(buf, 1) - 1))

\* strdup(buf)
StrDup(buf) == CStr(buf)

\* malloc placing the copy `s` in the free block `a` of heap `h`
Alloc(h, a, s) == [h EXCEPT ![a] = [live |-> TRUE, bytes |-> s]]

\* ------------------------------------------------------- lowlevel.c
NoError == "NULL"
MsgDefaultPrefix == "libcrypt does not support CRYPT_GENSALT_IMPLEMENTS_DEFAULT_PREFIX"
MsgAutoEntropy == "libcrypt does not support CRYPT_GENSALT_IMPLEMENTS_AUTO_ENTROPY"

\* feature_test complaining only when both macros are missing
feature_test_either(b) ==
    IF ~b.defaultPrefix /\ ~b.autoEntropy THEN MsgDefaultPrefix
    ELSE NoError

\* feature_test() on a library whose <crypt.h> defines the macros as `b` says
feature_test(b) ==
    IF ~b.defaultPrefix THEN MsgDefaultPrefix
    ELSE IF ~b.autoEntropy THEN MsgAutoEntropy
    ELSE NoError

\* `data` and `buf` with static storage: one area for all threads
ScratchStatic(t) == 1

\* `data` and `buf` have automatic storage: each thread's call has them in
\* that thread's own stack area
ScratchOf(t) == t

\* address of the stack area `slot`, as a pointer value
StackAddr(slot) == MaxBlocks + slot

NoArgs ==
    [phrase |-> NullStr, setting |-> NullStr, prefix |-> NullStr,
     count |-> 0, rbytes |-> NullStr, nrbytes |-> 0, size |-> 0]

\* crypt_r handed a setting that lost its last byte
wrap_crypt_r_args_cut(phrase, setting) ==
    [NoArgs EXCEPT !.phrase = Ptr(phrase),
                   !.setting = Ptr(SubSeq(setting, 1, Len(setting) - 1))]

\* the arguments of crypt_r(phrase, setting, &data)
wrap_crypt_r_args(phrase, setting) ==
    [NoArgs EXCEPT !.phrase = Ptr(phrase), !.setting = Ptr(setting)]

\* wrap_crypt_r without the NULL check: the scratch output is always copied
wrap_crypt_r_return_unchecked(h, a, resultNull, data, dataAddr) ==
    [ret |-> a, heap |-> Alloc(h, a, StrDup(data.output))]

\* wrap_crypt_r returning data.output itself instead of a copy
wrap_crypt_r_return_stack(h, a, resultNull, data, dataAddr) ==
    IF resultNull
    THEN [ret |-> NULL, heap |-> h]
    ELSE [ret |-> dataAddr, heap |-> h]

\* wrap_crypt_r treating an empty string like NULL
wrap_crypt_r_return_empty(h, a, resultNull, data, dataAddr) ==
    IF resultNull \/ StrDup(data.output) = <<>>
    THEN [ret |-> NULL, heap |-> h]
    ELSE [ret |-> a, heap |-> Alloc(h, a, StrDup(data.output))]

\* the tail of wrap_crypt_r: `a` is the block malloc would hand out
wrap_crypt_r_return(h, a, resultNull, data, dataAddr) ==
    IF resultNull
    THEN [ret |-> NULL, heap |-> h]
    ELSE [ret |-> a, heap |-> Alloc(h, a, StrDup(data.output))]

\* wrap_crypt_gensalt_rn without the mapping of "" to NULL
wrap_crypt_gensalt_rn_args_asis(prefix) ==
    [NoArgs EXCEPT
        !.prefix = Ptr(prefix),
        !.count = 0,
        !.rbytes = NullStr,
        !.nrbytes = 0,
        !.size = CRYPT_GENSALT_OUTPUT_SIZE]

\* the arguments of crypt_gensalt_rn(prefix, 0, NULL, 0, buf, sizeof(buf))
wrap_crypt_gensalt_rn_args(prefix) ==
    [NoArgs EXCEPT
        !.prefix = IF Len(prefix) = 0 THEN NullStr ELSE Ptr(prefix),
        !.count = 0,
        !.rbytes = NullStr,
        !.nrbytes = 0,
        !.size = CRYPT_GENSALT_OUTPUT_SIZE]

\* wrap_crypt_gensalt_rn copying before the NULL check and dropping the copy
wrap_crypt_gensalt_rn_return_leak(h, a, resultNull, buf) ==
    IF resultNull
    THEN [ret |-> NULL, heap |-> Alloc(h, a, StrNDup(buf, CRYPT_GENSALT_OUTPUT_SIZE))]
    ELSE [ret |-> a, heap |-> Alloc(h, a, StrNDup(buf, CRYPT_GENSALT_OUTPUT_SIZE))]

\* the tail of wrap_crypt_gensalt_rn
wrap_crypt_gensalt_rn_return(h, a, resultNull, buf) ==
    IF resultNull
    THEN [ret |-> NULL, heap |-> h]
    ELSE [ret |-> a, heap |-> Alloc(h, a, StrNDup(buf, CRYPT_GENSALT_OUTPUT_SIZE))]

\* ------------------------------------------------------- state
VARIABLES
    build,      \* which feature macros the linked <crypt.h> defines
    pc,         \* per thread: "idle", "called", "libdone", "returned"
    frame,      \* per thread: the call in progress
    stack,      \* per stack area: the bytes where `data` / `buf` live
    heap,       \* the malloc'ed blocks
    held,       \* results the caller received and has not freed
    probeRet    \* what feature_test returned, "unset" before its first call

vars == <<build, pc, frame, stack, heap, held, probeRet>>

NoFrame ==
    [fn |-> "none", phrase |-> <<>>, setting |-> <<>>, prefix |-> <<>>,
     fromSalt |-> FALSE, scratch |-> FALSE,
     libargs |-> NoArgs, entropy |-> EntropyFail,
     libnull |-> FALSE, libstr |-> <<>>, buf |-> <<>>, ret |-> NULL]

FreeBlock == [live |-> FALSE, bytes |-> <<>>]

\* a stack area no call is using: its bytes are indeterminate
DeadData == [initialized |-> GarbageByte, output |-> Fill(CRYPT_OUTPUT_SIZE, GarbageByte)]

\* what an object with automatic storage can hold before it is initialized
Uninitialized == {DeadData, ZeroData}

FreeAddrs == {a \in HeapAddrs : ~heap[a].live}

\* buf[CRYPT_GENSALT_OUTPUT_SIZE] within a stack area
BufOf(area) == SubSeq(area.output, 1, CRYPT_GENSALT_OUTPUT_SIZE)

WithBuf(area, buf) ==
    [area EXCEPT !.output =
        buf \o SubSeq(area.output, CRYPT_GENSALT_OUTPUT_SIZE + 1, CRYPT_OUTPUT_SIZE)]

\* the string a pointer returned by a wrapper points at
Deref(p) ==
    IF p \in HeapAddrs THEN heap[p].bytes
    ELSE CStr(stack[p - MaxBlocks].output)

\* settings the caller got from wrap_crypt_gensalt_rn and still holds
SaltSettings == {Deref(h.ptr) : h \in {x \in held : x.fn = "gensalt"}}

\* the caller's record of a result it received
Result(f) ==
    [ptr |-> f.ret, fn |-> f.fn, phrase |-> f.phrase,
     arg |-> IF f.fn = "crypt" THEN f.setting ELSE f.prefix,
     str |-> f.libstr]

Init ==
    /\ build \in [defaultPrefix : BOOLEAN, autoEntropy : BOOLEAN]
    /\ pc = [t \in Threads |-> "idle"]
    /\ frame = [t \in Threads |-> NoFrame]
    /\ stack = [s \in Threads |-> DeadData]
    /\ heap = [a \in HeapAddrs |-> FreeBlock]
    /\ held = {}
    /\ probeRet = "unset"

\* feature_test()
Probe ==
    /\ probeRet' = feature_test(build)
    /\ UNCHANGED <<build, pc, frame, stack, heap, held>>

\* wrap_crypt_r entered: `data` allocated on the stack and zeroed
CallCrypt(t, phrase, setting, fromSalt) ==
    /\ pc[t] = "idle"
    /\ pc' = [pc EXCEPT ![t] = "called"]
    /\ frame' = [frame EXCEPT ![t] =
                    [NoFrame EXCEPT !.fn = "crypt", !.phrase = phrase,
                                    !.setting = setting, !.fromSalt = fromSalt,
                                    !.scratch = TRUE]]
    /\ \E d \in Uninitialized :
         stack' = [stack EXCEPT ![ScratchOf(t)] = Memset(d)]
    /\ UNCHANGED <<build, heap, held, probeRet>>

\* crypt_r runs and returns
LibCrypt(t) ==
    /\ pc[t] = "called"
    /\ frame[t].fn = "crypt"
    /\ LET args == wrap_crypt_r_args(frame[t].phrase, frame[t].setting)
       IN  \E o \in crypt_r(args.phrase.str, args.setting.str, stack[ScratchOf(t)]) :
             /\ stack' = [stack EXCEPT ![ScratchOf(t)] = o.data]
             /\ frame' = [frame EXCEPT ![t].libargs = args,
                                       ![t].libnull = o.null,
                                       ![t].libstr = IF o.null THEN <<>>
                                                     ELSE CStr(o.data.output)]
    /\ pc' = [pc EXCEPT ![t] = "libdone"]
    /\ UNCHANGED <<build, heap, held, probeRet>>

\* wrap_crypt_r returns; its stack frame is gone.  The heap is finite here:
\* a call returns only while malloc has a block left to hand out.
ReturnCrypt(t) ==
    /\ pc[t] = "libdone"
    /\ frame[t].fn = "crypt"
    /\ \E a \in FreeAddrs :
         LET r == wrap_crypt_r_return(heap, a, frame[t].libnull,
                                      stack[ScratchOf(t)], StackAddr(ScratchOf(t)))
         IN  /\ heap' = r.heap
             /\ frame' = [frame EXCEPT ![t].ret = r.ret, ![t].scratch = FALSE]
    /\ stack' = [stack EXCEPT ![ScratchOf(t)] = DeadData]
    /\ pc' = [pc EXCEPT ![t] = "returned"]
    /\ UNCHANGED <<build, held, probeRet>>

\* wrap_crypt_gensalt_rn entered: `buf` allocated on the stack, not initialized
CallGensalt(t, prefix) ==
    /\ pc[t] = "idle"
    /\ pc' = [pc EXCEPT ![t] = "called"]
    /\ frame' = [frame EXCEPT ![t] =
                    [NoFrame EXCEPT !.fn = "gensalt", !.prefix = prefix,
                                    !.scratch = TRUE]]
    /\ \E d \in Uninitialized :
         stack' = [stack EXCEPT ![ScratchOf(t)] = WithBuf(DeadData, BufOf(d))]
    /\ UNCHANGED <<build, heap, held, probeRet>>

\* crypt_gensalt_rn runs and returns
LibGensalt(t) ==
    /\ pc[t] = "called"
    /\ frame[t].fn = "gensalt"
    /\ LET args == wrap_crypt_gensalt_rn_args(frame[t].prefix)
       IN  \E e \in Entropy :
             LET o == crypt_gensalt_rn(build, e, args.prefix, args.count,
                                       args.rbytes, args.nrbytes,
                                       BufOf(stack[ScratchOf(t)]), args.size)
             IN  /\ stack' = [stack EXCEPT ![ScratchOf(t)] = WithBuf(@, o.buf)]
                 /\ frame' = [frame EXCEPT ![t].libargs = args,
                                           ![t].entropy = e,
                                           ![t].buf = o.buf,
                                           ![t].libnull = o.null,
                                           ![t].libstr = IF o.null THEN <<>>
                                                         ELSE CStr(o.buf)]
    /\ pc' = [pc EXCEPT ![t] = "libdone"]
    /\ UNCHANGED <<build, heap, held, probeRet>>

\* wrap_crypt_gensalt_rn returns; its stack frame is gone
ReturnGensalt(t) ==
    /\ pc[t] = "libdone"
    /\ frame[t].fn = "gensalt"
    /\ \E a \in FreeAddrs :
         LET r == wrap_crypt_gensalt_rn_return(heap, a, frame[t].libnull,
                                               BufOf(stack[ScratchOf(t)]))
         IN  /\ heap' = r.heap
             /\ frame' = [frame EXCEPT ![t].ret = r.ret, ![t].scratch = FALSE]
    /\ stack' = [stack EXCEPT ![ScratchOf(t)] = DeadData]
    /\ pc' = [pc EXCEPT ![t] = "returned"]
    /\ UNCHANGED <<build, held, probeRet>>

\* the caller takes the returned pointer: it owns the block from here on
Take(t) ==
    /\ pc[t] = "returned"
    /\ held' = IF frame[t].ret = NULL THEN held
               ELSE held \cup {Result(frame[t])}
    /\ pc' = [pc EXCEPT ![t] = "idle"]
    /\ frame' = [frame EXCEPT ![t] = NoFrame]
    /\ UNCHANGED <<build, stack, heap, probeRet>>

\* the caller frees a result it holds
Release(h) ==
    /\ h \in held
    /\ held' = held \ {h}
    /\ heap' = IF h.ptr \in HeapAddrs THEN [heap EXCEPT ![h.ptr] = FreeBlock]
               ELSE heap
    /\ UNCHANGED <<build, pc, frame, stack, probeRet>>

Next ==
    \/ Probe
    \/ \E t \in Threads, p \in Phrases : CallCrypt(t, p, MalformedSetting, FALSE)
    \/ \E t \in Threads, p \in Phrases, s \in SaltSettings : CallCrypt(t, p, s, TRUE)
    \/ \E t \in Threads : LibCrypt(t)
    \/ \E t \in Threads : ReturnCrypt(t)
    \/ \E t \in Threads, p \in Prefixes : CallGensalt(t, p)
    \/ \E t \in Threads : LibGensalt(t)
    \/ \E t \in Threads : ReturnGensalt(t)
    \/ \E t \in Threads : Take(t)
    \/ \E h \in held : Release(h)

Spec == Init /\ [][Next]_vars

TypeOK ==
    /\ pc \in [Threads -> {"idle", "called", "libdone", "returned"}]
    /\ \A a \in HeapAddrs : heap[a].live \in BOOLEAN

\* ------------------------------------------------------- properties
Returned(t) == pc[t] = "returned"
AfterLib(t) == pc[t] \in {"libdone", "returned"}

\* what the caller sees behind a returned pointer
Outcome(p) == IF p = NULL THEN NullStr ELSE Ptr(Deref(p))

\* results of wrapper calls the caller can look at: held ones and the ones
\* just returned
Results == held \cup {Result(frame[t]) : t \in {u \in Threads : Returned(u)}}

\* wrap_crypt_r(phrase, setting) run alone, start to end
AloneCrypt(phrase, setting) ==
    LET args == wrap_crypt_r_args(phrase, setting)
        o == CHOOSE x \in crypt_r(args.phrase.str, args.setting.str, Memset(DeadData)) : TRUE
        r == wrap_crypt_r_return([a \in HeapAddrs |-> FreeBlock], 1, o.null, o.data, 0)
    IN  IF r.ret = NULL THEN NullStr ELSE Ptr(r.heap[r.ret].bytes)

\* wrap_crypt_gensalt_rn(prefix) run alone with the entropy e
AloneGensalt(e, prefix) ==
    LET args == wrap_crypt_gensalt_rn_args(prefix)
        o == crypt_gensalt_rn(build, e, args.prefix, args.count, args.rbytes,
                              args.nrbytes, BufOf(DeadData), args.size)
        r == wrap_crypt_gensalt_rn_return([a \in HeapAddrs |-> FreeBlock], 1, o.null, o.buf)
    IN  IF r.ret = NULL THEN NullStr ELSE Ptr(r.heap[r.ret].bytes)

Alone(f) ==
    IF f.fn = "crypt" THEN AloneCrypt(f.phrase, f.setting)
    ELSE AloneGensalt(f.entropy, f.prefix)

\* C1: whenever crypt_r returned NULL, wrap_crypt_r returns NULL: the caller
\* is handed no pointer, so nothing of the scratch buffer reaches it.
C1_ErrorReturnsNull ==
    \A t \in Threads :
        (Returned(t) /\ frame[t].fn = "crypt" /\ frame[t].libnull)
            => frame[t].ret = NULL

C1_Witness ==
    \E t \in Threads :
        /\ Returned(t) /\ frame[t].fn = "crypt" /\ frame[t].libnull
        /\ frame[t].setting = MalformedSetting
        /\ frame[t].ret = NULL

\* C2: under every interleaving, a call that has returned yields what the
\* same call yields when run alone, and while a call is between the library
\* call and its return its scratch buffer holds what the library wrote for
\* this very call.
C2_MatchesSingleThreaded ==
    \A t \in Threads :
        /\ Returned(t) => Outcome(frame[t].ret) = Alone(frame[t])
        /\ (pc[t] = "libdone" /\ ~frame[t].libnull)
               => frame[t].libstr =
                     CStr(IF frame[t].fn = "crypt"
                          THEN stack[ScratchOf(t)].output
                          ELSE BufOf(stack[ScratchOf(t)]))

C2_Witness ==
    \E t, u \in Threads :
        /\ t # u
        /\ pc[t] = "libdone" /\ frame[t].fn = "crypt" /\ ~frame[t].libnull
        /\ pc[u] = "libdone" /\ frame[u].fn = "gensalt" /\ ~frame[u].libnull
        /\ frame[t].libstr # frame[u].libstr

\* C3: crypt_gensalt_rn receives a NULL prefix exactly when the caller's
\* prefix is empty, the caller's prefix itself otherwise, and always count 0,
\* rbytes NULL and nrbytes 0.
C3_GensaltArguments ==
    \A t \in Threads :
        (frame[t].fn = "gensalt" /\ AfterLib(t)) =>
            /\ frame[t].libargs.prefix.null <=> (frame[t].prefix = <<>>)
            /\ frame[t].prefix # <<>> => frame[t].libargs.prefix = Ptr(frame[t].prefix)
            /\ frame[t].libargs.count = 0
            /\ frame[t].libargs.rbytes = NullStr
            /\ frame[t].libargs.nrbytes = 0

C3_Witness ==
    \E t, u \in Threads :
        /\ frame[t].fn = "gensalt" /\ AfterLib(t) /\ frame[t].prefix = <<>>
        /\ frame[t].libargs.prefix.null
        /\ frame[u].fn = "gensalt" /\ AfterLib(u) /\ frame[u].prefix = <<5>>
        /\ frame[u].libargs.prefix = Ptr(<<5>>)

\* C4 as stated: on success the returned block holds the whole
\* CRYPT_GENSALT_OUTPUT_SIZE-byte window of buf, the bytes after the first
\* NUL included.
C4_FixedWindowCopied ==
    \A t \in Threads :
        (Returned(t) /\ frame[t].fn = "gensalt" /\ frame[t].ret # NULL)
            => Deref(frame[t].ret) = frame[t].buf

\* C4 amended: on success the returned block holds the bytes of buf before
\* its first NUL, fewer than CRYPT_GENSALT_OUTPUT_SIZE of them; no byte at or
\* after the first NUL is copied.
C4_CopyStopsAtNul ==
    \A t \in Threads :
        (Returned(t) /\ frame[t].fn = "gensalt" /\ frame[t].ret # NULL) =>
            LET r == Deref(frame[t].ret)
            IN  /\ Len(r) < CRYPT_GENSALT_OUTPUT_SIZE
                /\ r = SubSeq(frame[t].buf, 1, Len(r))
                /\ frame[t].buf[Len(r) + 1] = 0
                /\ \A i \in 1..Len(r) : r[i] # 0

C4_Witness ==
    \E t \in Threads :
        /\ Returned(t) /\ frame[t].fn = "gensalt" /\ frame[t].ret # NULL
        /\ \E i \in 1..CRYPT_GENSALT_OUTPUT_SIZE :
              /\ i > Len(Deref(frame[t].ret)) + 1
              /\ frame[t].buf[i] # 0

ProbeCorrect ==
    /\ probeRet \in {NoError, MsgDefaultPrefix, MsgAutoEntropy}
    /\ probeRet = NoError <=> (build.defaultPrefix /\ build.autoEntropy)
    /\ probeRet = MsgDefaultPrefix => ~build.defaultPrefix
    /\ probeRet = MsgAutoEntropy => ~build.autoEntropy

\* C5: feature_test returns NULL exactly when both macros are defined and
\* otherwise a message naming a macro that is missing; once it has returned a
\* value every later call returns that value, whatever calls ran meanwhile,
\* and a call of it changes nothing else.
C5_ProbePure ==
    /\ [](probeRet # "unset" => ProbeCorrect)
    /\ [][/\ build' = build
          /\ probeRet' # probeRet =>
                /\ probeRet = "unset"
                /\ UNCHANGED <<pc, frame, stack, heap, held>>]_vars

C5_Witness ==
    /\ probeRet = MsgAutoEntropy
    /\ build.defaultPrefix
    /\ \E t \in Threads : Returned(t) /\ frame[t].fn = "gensalt"
    /\ \E t \in Threads : pc[t] = "libdone" /\ frame[t].fn = "crypt"

\* C6: every string wrap_crypt_r handed out lives in a heap block of its own,
\* never in a stack area, and holds what the library produced for that call
\* for as long as the caller keeps it, whatever calls run later.
C6_ResultOwned ==
    /\ \A r \in Results :
          (r.fn = "crypt" /\ r.ptr # NULL) =>
              /\ r.ptr \in HeapAddrs
              /\ heap[r.ptr].live
              /\ heap[r.ptr].bytes = r.str
    /\ \A r1, r2 \in Results :
          (r1 # r2 /\ r1.ptr # NULL /\ r1.fn = "crypt") => r1.ptr # r2.ptr

C6_Witness ==
    /\ \E h \in held : h.fn = "crypt" /\ h.str # <<>>
    /\ \A t \in Threads : AfterLib(t)

\* C7: any two wrap_crypt_r calls with the same phrase and setting give the
\* same result, whatever ran before or between them.
C7_Deterministic ==
    \A r1, r2 \in Results :
        (r1.fn = "crypt" /\ r2.fn = "crypt"
            /\ r1.phrase = r2.phrase /\ r1.arg = r2.arg)
            => Outcome(r1.ptr) = Outcome(r2.ptr)

C7_Witness ==
    \E r1, r2 \in Results :
        /\ r1.fn = "crypt" /\ r2.fn = "crypt"
        /\ r1.phrase = r2.phrase /\ r1.arg = r2.arg
        /\ r1.ptr # NULL /\ r2.ptr # NULL /\ r1.ptr # r2.ptr
        /\ Deref(r1.ptr) # <<>>

GensaltIsExact(t) ==
    (frame[t].fn = "gensalt" /\ Returned(t) /\ frame[t].ret # NULL)
        => (~frame[t].libnull /\ Deref(frame[t].ret) = frame[t].libstr)

CryptPassesThrough(t) ==
    (frame[t].fn = "crypt" /\ AfterLib(t)) =>
        /\ frame[t].libargs.phrase = Ptr(frame[t].phrase)
        /\ frame[t].libargs.setting = Ptr(frame[t].setting)
        /\ frame[t].fromSalt => ~frame[t].libnull
        /\ (frame[t].fromSalt /\ Returned(t)) => frame[t].ret # NULL

LiveBlocks == {a \in HeapAddrs : heap[a].live}
Handed == {r \in Results : r.ptr # NULL}

\* C10: the live heap blocks are exactly the results handed to the caller and
\* not yet freed, one block per successful call and none for a failed one,
\* and no call that has returned still has its scratch buffer.
C10_NoResidue ==
    /\ LiveBlocks = {r.ptr : r \in Handed}
    /\ Cardinality(LiveBlocks) = Cardinality(Handed)
    /\ \A t \in Threads :
          pc[t] \in {"idle", "returned"} =>
              /\ ~frame[t].scratch
              /\ stack[ScratchOf(t)] = DeadData

C10_Witness ==
    /\ Cardinality(held) = 1
    /\ Cardinality(LiveBlocks) = 1
    /\ \E t \in Threads : Returned(t) /\ frame[t].libnull /\ frame[t].fn = "gensalt"
    /\ \E t \in Threads : pc[t] = "idle"

====
